---- MODULE Spec2Model ----
(***************************************************************************)
(* consumers/consumer_nickelias.py: a consumer that tails a file of JSON   *)
(* lines, normalizes each record (process_message) and writes it to a      *)
(* SQLite store (insert_message, with a recomputed aggregate row) and to a *)
(* CSV log (append_to_csv).                                                *)
(*                                                                         *)
(* Values.  Every JSON / Python value is a record [k, s, n] so that any    *)
(* two values can be compared: k is the type tag, s a string payload, n a  *)
(* number payload.  Numbers are counted in tenths (0.5 is n = 5); a float  *)
(* is [k |-> "float"] with s in {"fin", "nan", "inf"}.                     *)
(***************************************************************************)
EXTENDS Integers, Sequences, FiniteSets, TLC

\* ------------------------------------------------------------------ bounds
\* Most lines the producer ever appends to the source file.
MaxLines == 2
\* Most rows the record table holds, and most data rows a run appends to
\* the CSV file; a write beyond it fails (the disk is full).
MaxRows == 2

\* ------------------------------------------------------------------ values
JStr(t) == [k |-> "str", s |-> t, n |-> 0]
JNum(i) == [k |-> "num", s |-> "", n |-> i]
\* The key is not in the decoded dict.
JAbsent == [k |-> "absent", s |-> "", n |-> 0]
PyNone == [k |-> "none", s |-> "", n |-> 0]
Fin(i) == [k |-> "float", s |-> "fin", n |-> i]
NaN == [k |-> "float", s |-> "nan", n |-> 0]
Inf == [k |-> "float", s |-> "inf", n |-> 0]
\* What a float() call gives: a value, or the exception it raised.
Raised == [k |-> "raised", s |-> "", n |-> 0]

Keys == {"message", "author", "timestamp", "category", "sentiment", "keyword_mentioned"}

\* ------------------------------------------------------- the source lines
\* The lines the producer writes, by name (their text is given at
\* JsonLoads); LineBytes is a line's length in bytes, newline included.
LineIds == {"Blank", "Garbage", "Hi", "Bye", "Yo", "NaN"}

LineBytes(id) ==
    CASE id = "Blank" -> 3        \* "  \n"
      [] id = "Garbage" -> 9      \* "not json\n"
      [] id = "Hi" -> 103
      [] id = "Bye" -> 81
      [] id = "Yo" -> 30
      [] id = "NaN" -> 34

\* line.strip() is non-empty (line 260).
NonEmpty(id) == id # "Blank"

NoKeys == [key \in Keys |-> JAbsent]

\* json.loads(line.strip()) (line 262): ok is FALSE when it raises
\* JSONDecodeError, else obj is the decoded dict.
\*   Hi:  {"message":"hi","author":"A","timestamp":"t1","category":"c",
\*         "sentiment":0.5,"keyword_mentioned":"hi"}
\*   Bye: {"message":"bye","author":"B","timestamp":"t2","category":"c",
\*         "sentiment":"bad"}
\*   Yo:  {"message":"yo","author":"C"}
\*   NaN: {"message":"n","sentiment":"nan"}
JsonLoads(id) ==
    CASE id = "Hi" ->
           [ok |-> TRUE,
            obj |-> [message |-> JStr("hi"), author |-> JStr("A"),
                     timestamp |-> JStr("t1"), category |-> JStr("c"),
                     sentiment |-> JNum(5), keyword_mentioned |-> JStr("hi")]]
      [] id = "Bye" ->
           [ok |-> TRUE,
            obj |-> [message |-> JStr("bye"), author |-> JStr("B"),
                     timestamp |-> JStr("t2"), category |-> JStr("c"),
                     sentiment |-> JStr("bad"), keyword_mentioned |-> JAbsent]]
      [] id = "Yo" ->
           [ok |-> TRUE,
            obj |-> [NoKeys EXCEPT !.message = JStr("yo"), !.author = JStr("C")]]
      [] id = "NaN" ->
           [ok |-> TRUE,
            obj |-> [NoKeys EXCEPT !.message = JStr("n"), !.sentiment = JStr("nan")]]
      [] OTHER -> [ok |-> FALSE, obj |-> NoKeys]

\* ---------------------------------------------------------- process_message
\* dict.get(key, default): the default for a missing key.
Get(obj, key, default) == IF obj[key].k = "absent" THEN default ELSE obj[key]

\* float(str): the strings Python parses, ValueError for the rest.
FloatOfStr(t) ==
    CASE t = "nan" -> NaN
      [] t = "inf" -> Inf
      [] t = "0.5" -> Fin(5)
      [] OTHER -> Raised

\* float(v) with 0.0 for whatever cannot be coerced.
ToFloat_Default0(v) ==
    CASE v.k = "float" -> v
      [] v.k = "num" -> Fin(v.n)
      [] OTHER -> Fin(0)

\* float(v): a number, a numeric string; ValueError for other strings,
\* TypeError for None.
ToFloat(v) ==
    CASE v.k = "float" -> v
      [] v.k = "num" -> Fin(v.n)
      [] v.k = "str" -> FloatOfStr(v.s)
      [] OTHER -> Raised

\* A string field of the processed message: message.get(key), None when the
\* key is missing.
Field(obj, key) == Get(obj, key, PyNone)

\* The record process_message returns, or NoMsg for None.
NoMsg == [message |-> PyNone, author |-> PyNone, timestamp |-> PyNone,
          category |-> PyNone, sentiment |-> Raised, keyword_mentioned |-> PyNone]

process_message(obj) ==
    LET f == ToFloat(Get(obj, "sentiment", Fin(0)))
    IN  IF f = Raised
        THEN NoMsg
        ELSE [message |-> Field(obj, "message"), author |-> Field(obj, "author"),
              timestamp |-> Field(obj, "timestamp"), category |-> Field(obj, "category"),
              sentiment |-> f, keyword_mentioned |-> Field(obj, "keyword_mentioned")]

\* The processed messages the lines above give.
Msgs == {process_message(JsonLoads(id).obj) : id \in {"Hi", "Yo", "NaN"}}

\* --------------------------------------------------------- the SQLite store
\* The database file: whether it exists, and its two tables.  msgs is
\* streamed_messages in id order, ins is sentiment_insights; a row of ins is
\* [k, num, den, total]: average_sentiment is NULL (k = "null"), infinite
\* (k = "inf") or the fraction num/den of tenths (k = "fin"), and total is
\* total_messages.  last_updated orders the rows of ins; the code never holds
\* more than one, and the model keeps them oldest first.
NoStore == [file |-> FALSE, msgs_t |-> FALSE, msgs |-> <<>>, ins_t |-> FALSE, ins |-> <<>>]

SqlNull == [k |-> "null", s |-> "", n |-> 0]

\* A float bound to a REAL column: SQLite stores NaN as NULL.
Bind(f) == IF f = NaN THEN SqlNull ELSE f

\* The row the INSERT of lines 195-209 adds.
RowOf(m) == [m EXCEPT !.sentiment = Bind(m.sentiment)]

RECURSIVE SumFin(_)
SumFin(rows) ==
    IF rows = <<>> THEN 0
    ELSE (IF Head(rows).sentiment.s = "fin" THEN Head(rows).sentiment.n ELSE 0)
         + SumFin(Tail(rows))

NonNull(rows) == {i \in DOMAIN rows : rows[i].sentiment.k # "null"}

\* SELECT COUNT(*), AVG(sentiment) FROM streamed_messages (line 212): AVG
\* skips NULL and is NULL when nothing is left.
SelectCountAvg(rows) ==
    [total |-> Len(rows),
     k |-> IF NonNull(rows) = {} THEN "null"
           ELSE IF \E i \in NonNull(rows) : rows[i].sentiment.s = "inf" THEN "inf"
           ELSE "fin",
     num |-> IF NonNull(rows) = {} \/ \E i \in NonNull(rows) : rows[i].sentiment.s = "inf"
             THEN 0 ELSE SumFin(rows),
     den |-> IF NonNull(rows) = {} \/ \E i \in NonNull(rows) : rows[i].sentiment.s = "inf"
             THEN 1 ELSE Cardinality(NonNull(rows))]

\* The row init_db seeds: (0.0, 0, datetime('now')) (line 169).
SeedRow == [total |-> 0, k |-> "fin", num |-> 0, den |-> 1]

\* UPDATE sentiment_insights ... WHERE id = (the most recently updated row)
\* (lines 215-222): no row is touched when the table is empty.
UpdateLatest(ins, agg) ==
    IF ins = <<>> THEN ins ELSE [ins EXCEPT ![Len(ins)] = agg]

\* Where a call on the store can raise.
InitFaults == {"none", "connect", "drop", "create1", "create2", "seed"}
InsertFaults == {"none", "connect", "insert", "update", "commit"}
\* The init_db faults the run of main is checked with.
RunInitFaults == {"none", "connect", "create2", "seed"}

\* The loop going to the next line after insert_message, with no CSV row.
AfterInsert_NextLine == "iter"

\* Line 268 follows line 267 whatever insert_message did: it raises nothing.
AfterInsert == "csv"

\* The loop with no handler for what is not FileNotFoundError: the error leaves
\* the loop.
AfterError_Raise == "crashed"

\* Lines 280-282: the handler logs, sleeps, and the while loop goes on.
AfterError == "sleep"

\* init_db (lines 130-174).  A DDL statement is committed as it runs, so a
\* failure leaves what ran before it; the seed INSERT is rolled back when it
\* or the commit fails ("seed").  fault names the first step that raises.
init_db(st, fault) ==
    LET opened == [st EXCEPT !.file = TRUE]
        dropped == [opened EXCEPT !.msgs_t = FALSE, !.msgs = <<>>]
        created1 == [dropped EXCEPT !.msgs_t = TRUE]
        created2 == [created1 EXCEPT !.ins_t = TRUE]
        seeded == IF Len(created2.ins) = 0
                  THEN [created2 EXCEPT !.ins = <<SeedRow>>]
                  ELSE created2
    IN  CASE fault = "connect" -> st
          [] fault = "drop" -> opened
          [] fault = "create1" -> dropped
          [] fault = "create2" -> created1
          [] fault = "seed" -> created2
          [] OTHER -> seeded

\* insert_message with each statement committed as it runs: an error after
\* the INSERT leaves the row without the aggregate update.
insert_message_Autocommit(st, m, fault) ==
    LET opened == [st EXCEPT !.file = TRUE]
        inserted == [opened EXCEPT !.msgs = Append(@, RowOf(m))]
    IN  CASE fault = "connect" -> st
          [] fault = "insert" \/ ~st.msgs_t -> opened
          [] fault = "update" \/ ~st.ins_t -> inserted
          [] OTHER -> [inserted EXCEPT
                         !.ins = UpdateLatest(@, SelectCountAvg(inserted.msgs))]

\* How an insert_message call on st ends: "ok" (committed), "early" (it raised
\* before its INSERT had run) or "late" (it raised after its INSERT).
InsertResult(st, fault) ==
    CASE fault = "connect" \/ fault = "insert" \/ ~st.msgs_t -> "early"
      [] fault = "update" \/ fault = "commit" \/ ~st.ins_t -> "late"
      [] OTHER -> "ok"

\* insert_message (lines 192-226): one transaction; the with block rolls the
\* INSERT back when a later statement or the commit raises, and the except
\* clause swallows the error.  A missing table raises at the statement that
\* names it.  connect creates the file when it is not there.
insert_message(st, m, fault) ==
    LET opened == [st EXCEPT !.file = TRUE]
        inserted == [opened EXCEPT !.msgs = Append(@, RowOf(m))]
        updated == [inserted EXCEPT
                      !.ins = UpdateLatest(@, SelectCountAvg(inserted.msgs))]
    IN  CASE fault = "connect" -> st
          [] fault = "insert" \/ ~st.msgs_t -> opened
          [] fault = "update" \/ ~st.ins_t -> opened
          [] fault = "commit" -> opened
          [] OTHER -> updated

\* ------------------------------------------------------------ the CSV file
Header == <<"message", "author", "timestamp", "category", "sentiment", "keyword_mentioned">>

Digit(d) == CASE d = 0 -> "0" [] d = 1 -> "1" [] d = 2 -> "2" [] d = 3 -> "3"
              [] d = 4 -> "4" [] d = 5 -> "5" [] d = 6 -> "6" [] d = 7 -> "7"
              [] d = 8 -> "8" [] OTHER -> "9"

RECURSIVE NatStr(_)
NatStr(i) == IF i < 10 THEN Digit(i) ELSE NatStr(i \div 10) \o Digit(i % 10)

\* What csv.writer writes for a field: "" for None, the text of a string,
\* repr() of a float (tenths: 5 is "0.5").
CsvField(v) ==
    CASE v.k = "none" -> ""
      [] v.k = "str" -> v.s
      [] v.k = "float" /\ v.s = "nan" -> "nan"
      [] v.k = "float" /\ v.s = "inf" -> "inf"
      [] v.k = "float" /\ v.n < 0 -> "-" \o NatStr((0 - v.n) \div 10) \o "." \o Digit((0 - v.n) % 10)
      [] OTHER -> NatStr(v.n \div 10) \o "." \o Digit(v.n % 10)

DataRow(m) == <<CsvField(m.message), CsvField(m.author), CsvField(m.timestamp),
                CsvField(m.category), CsvField(m.sentiment), CsvField(m.keyword_mentioned)>>

NoCsv == [exists |-> FALSE, rows |-> <<>>]

\* Where append_to_csv can raise: at open (nothing changes), while writing
\* the data row (an empty or new file keeps the header written before it),
\* or at the flush on close (an opened file is created, nothing reaches it).
CsvFaults == {"none", "open", "row", "flush"}

\* append_to_csv with the header written by every call.
append_to_csv_HeaderAlways(f, m, fault) ==
    CASE fault = "open" -> f
      [] fault = "flush" -> [f EXCEPT !.exists = TRUE]
      [] fault = "row" -> [exists |-> TRUE, rows |-> f.rows \o <<Header>>]
      [] OTHER -> [exists |-> TRUE, rows |-> f.rows \o <<Header, DataRow(m)>>]

\* append_to_csv (lines 95-113): the header goes in only when the file did
\* not exist before the open; the except clause swallows the error.
append_to_csv(f, m, fault) ==
    LET head == IF f.exists THEN <<>> ELSE <<Header>>
    IN  CASE fault = "open" -> f
          [] fault = "flush" -> [f EXCEPT !.exists = TRUE]
          [] fault = "row" -> [exists |-> TRUE, rows |-> f.rows \o head]
          [] OTHER -> [exists |-> TRUE, rows |-> f.rows \o head \o <<DataRow(m)>>]

\* ------------------------------------------------------------------- state
VARIABLES
    pc,             \* where the process is: main, the loop, or ended
    src_exists,     \* the live data file exists
    src,            \* its lines, in file order
    last_position,  \* the stored offset (bytes)
    cur,            \* the open file's read position (bytes)
    new_data_found, \* the flag of line 257
    pending,        \* processed_message, while it is being dispatched
    store,          \* the SQLite file
    csv,            \* the CSV file
    db_ready,       \* an init_db call of this run returned without an error
    init_res,       \* "ok" or "fail" while the latest call on the store is init_db
    pass_exit,      \* how the latest pass ended
    last_line,      \* what the loop did with the latest line it read
    ins_res,        \* the latest line's insert_message call: "-" (none), "ok",
                    \* "early" (failed before its INSERT ran) or "late" (after)
    csv_res,        \* the latest line's append_to_csv call: "-", "ok" or "fail"
    quiet,          \* passes that opened the file since the last append (to 2)
    failed,         \* the failed sink writes: <<"db" or "csv", end offset of the line>>
    csv_calls,      \* the data rows of the append_to_csv calls that did not fail
    csv_at_start,   \* the CSV file existed when the run began
    init_calls,     \* the init_db calls the run of main has made
    exit_log        \* what main has logged since the loop ended

vars == <<pc, src_exists, src, last_position, cur, new_data_found, pending, store,
          csv, db_ready, init_res, pass_exit, last_line, ins_res, csv_res, quiet,
          failed, csv_calls, csv_at_start, init_calls, exit_log>>

\* The positions inside consume_messages_from_file's while loop.
LoopPcs == {"open", "iter", "insert", "csv", "sleep"}

\* ----------------------------------------------------------- file positions
RECURSIVE Offset(_, _)
\* The byte offset at which the first i lines end.
Offset(lines, i) == IF i = 0 THEN 0 ELSE Offset(lines, i - 1) + LineBytes(lines[i])

Size(lines) == Offset(lines, Len(lines))

\* A line starts at pos.
HasLineAt(lines, pos) == \E i \in DOMAIN lines : Offset(lines, i - 1) = pos

LineAt(lines, pos) == lines[CHOOSE i \in DOMAIN lines : Offset(lines, i - 1) = pos]

\* A store and a CSV file an earlier run left behind.
OldStore == [file |-> TRUE, msgs_t |-> TRUE,
             msgs |-> <<RowOf(process_message(JsonLoads("Hi").obj))>>,
             ins_t |-> TRUE,
             ins |-> <<[total |-> 1, k |-> "fin", num |-> 5, den |-> 1]>>]

OldCsv == [exists |-> TRUE,
           rows |-> <<Header, DataRow(process_message(JsonLoads("Hi").obj))>>]

\* ------------------------------------------------------------------- Init
InitCommon ==
    /\ src_exists = FALSE
    /\ src = <<>>
    /\ last_position = 0
    /\ cur = 0
    /\ new_data_found = FALSE
    /\ pending = NoMsg
    /\ db_ready = FALSE
    /\ init_res = "-"
    /\ pass_exit = "none"
    /\ last_line = "none"
    /\ ins_res = "-"
    /\ csv_res = "-"
    /\ quiet = 0
    /\ failed = {}
    /\ csv_calls = <<>>
    /\ init_calls = 0
    /\ exit_log = <<>>

\* The process starts in main; the store of an earlier run may be there.
Init ==
    /\ InitCommon
    /\ pc = "main"
    /\ store \in {NoStore, OldStore}
    /\ csv = NoCsv
    /\ csv_at_start = FALSE

\* ------------------------------------------------------------------- main
\* main, lines 297-304: reading the configuration; sys.exit(1) on an error.
MainConfig ==
    /\ pc = "main"
    /\ \E ok \in BOOLEAN : pc' = IF ok THEN "unlink" ELSE "exit1"
    /\ UNCHANGED <<src_exists, src, last_position, cur, new_data_found,
                   pending, store, csv, db_ready, init_res, pass_exit,
                   last_line, ins_res, csv_res, quiet, failed, csv_calls,
                   csv_at_start, init_calls, exit_log>>

\* main, lines 307-312: the old database file is deleted; sys.exit(2) when
\* the unlink fails.
MainUnlink ==
    /\ pc = "unlink"
    /\ \/ /\ ~store.file
          /\ pc' = "init_main"
          /\ store' = store
       \/ /\ store.file
          /\ pc' = "init_main"
          /\ store' = NoStore
       \/ /\ store.file
          /\ pc' = "exit2"
          /\ store' = store
    /\ UNCHANGED <<src_exists, src, last_position, cur, new_data_found,
                   pending, csv, db_ready, init_res, pass_exit, last_line,
                   ins_res, csv_res, quiet, failed, csv_calls, csv_at_start,
                   init_calls, exit_log>>

\* main, line 315: init_db(sqlite_path).
MainInitDb ==
    /\ pc = "init_main"
    /\ \E fault \in RunInitFaults :
          /\ store' = init_db(store, fault)
          /\ db_ready' = (db_ready \/ fault = "none")
          /\ init_res' = IF fault = "none" THEN "ok" ELSE "fail"
    /\ init_calls' = init_calls + 1
    /\ pc' = "init_loop"
    /\ UNCHANGED <<src_exists, src, last_position, cur, new_data_found,
                   pending, csv, pass_exit, last_line, ins_res, csv_res, quiet,
                   failed, csv_calls, csv_at_start, exit_log>>

\* consume_messages_from_file, line 250: init_db(sql_path) again, then the
\* loop; last_position is the 0 main passed (line 318).
LoopInitDb ==
    /\ pc = "init_loop"
    /\ \E fault \in RunInitFaults :
          /\ store' = init_db(store, fault)
          /\ db_ready' = (db_ready \/ fault = "none")
          /\ init_res' = IF fault = "none" THEN "ok" ELSE "fail"
    /\ init_calls' = init_calls + 1
    /\ pc' = "open"
    /\ UNCHANGED <<src_exists, src, last_position, cur, new_data_found,
                   pending, csv, pass_exit, last_line, ins_res, csv_res, quiet,
                   failed, csv_calls, csv_at_start, exit_log>>

\* --------------------------------------------------------------- the loop
\* The next pass started at once when the file is not there.
AfterNotFound_NoSleep == "open"

\* Lines 277-279: FileNotFoundError is logged and the loop sleeps; open(..., "r")
\* creates nothing.
AfterNotFound == "sleep"

\* Lines 255-257 and 277-282: open the file and seek to the stored offset.
\* FileNotFoundError and any other error of the open end the pass in a sleep.
OpenFile ==
    /\ pc = "open"
    /\ \/ /\ ~src_exists
          /\ pass_exit' = "notfound"
          /\ pc' = AfterNotFound
          /\ UNCHANGED <<cur, quiet>>
       \/ /\ src_exists
          /\ pass_exit' = "error"
          /\ pc' = AfterError
          /\ UNCHANGED <<cur, quiet>>
       \/ /\ src_exists
          /\ pass_exit' = "none"
          /\ pc' = "iter"
          /\ cur' = last_position
          /\ quiet' = IF quiet < 2 THEN quiet + 1 ELSE 2
    /\ new_data_found' = FALSE
    /\ UNCHANGED <<src_exists, src, last_position, pending, store, csv,
                   db_ready, init_res, last_line, ins_res, csv_res, failed,
                   csv_calls, csv_at_start, init_calls, exit_log>>

\* The offset set back to 0 when a pass is given up.
OffsetAfterAbort_Reset(offset) == 0

\* The stored offset after a pass that an exception ended: line 271 has not
\* run, so it is the offset the pass began with.
OffsetAfterAbort(offset) == offset

\* Lines 259-266: the next line of the file.  An empty line is passed over; a
\* line json.loads cannot decode raises out of the for loop and the with
\* block into the handler of line 280, which sleeps: the pass is over and
\* line 271 has not run.  A decoded line goes through process_message, and
\* its result, unless None, is dispatched.
ReadLine ==
    /\ pc = "iter"
    /\ HasLineAt(src, cur)
    /\ \E id \in {LineAt(src, cur)} : \E decoded \in {JsonLoads(id)} :
         \E msg \in {process_message(decoded.obj)} :
           \/ /\ ~NonEmpty(id)
              /\ last_line' = "blank"
              /\ cur' = cur + LineBytes(id)
              /\ UNCHANGED <<pc, new_data_found, pending, pass_exit, last_position>>
           \/ /\ NonEmpty(id)
              /\ ~decoded.ok
              /\ last_line' = "decode_error"
              /\ pass_exit' = "error"
              /\ pc' = AfterError
              /\ cur' = 0
              /\ new_data_found' = FALSE
              /\ last_position' = OffsetAfterAbort(last_position)
              /\ UNCHANGED pending
           \/ /\ NonEmpty(id)
              /\ decoded.ok
              /\ msg = NoMsg
              /\ last_line' = "dropped"
              /\ new_data_found' = TRUE
              /\ cur' = cur + LineBytes(id)
              /\ UNCHANGED <<pc, pending, pass_exit, last_position>>
           \/ /\ NonEmpty(id)
              /\ decoded.ok
              /\ msg # NoMsg
              /\ last_line' = "emitted"
              /\ new_data_found' = TRUE
              /\ cur' = cur + LineBytes(id)
              /\ pending' = msg
              /\ pc' = "insert"
              /\ UNCHANGED <<pass_exit, last_position>>
    /\ ins_res' = "-"
    /\ csv_res' = "-"
    /\ UNCHANGED <<src_exists, src, store, csv, db_ready, init_res, quiet,
                   failed, csv_calls, csv_at_start, init_calls, exit_log>>

\* Line 267: insert_message(processed_message, sql_path).
DoInsert ==
    /\ pc = "insert"
    /\ \E fault \in InsertFaults :
          /\ Len(store.msgs) >= MaxRows => fault # "none"
          /\ store' = insert_message(store, pending, fault)
          /\ ins_res' = InsertResult(store, fault)
          /\ failed' = IF InsertResult(store, fault) = "ok" THEN failed
                       ELSE failed \cup {<<"db", cur>>}
    /\ init_res' = "-"
    /\ pc' = AfterInsert
    /\ UNCHANGED <<src_exists, src, last_position, cur, new_data_found,
                   pending, csv, db_ready, pass_exit, last_line, csv_res,
                   quiet, csv_calls, csv_at_start, init_calls, exit_log>>

\* Line 268: append_to_csv(processed_message).
DoCsv ==
    /\ pc = "csv"
    /\ \E fault \in CsvFaults :
          /\ Len(csv_calls) >= MaxRows => fault # "none"
          /\ csv' = append_to_csv(csv, pending, fault)
          /\ csv_res' = IF fault = "none" THEN "ok" ELSE "fail"
          /\ failed' = IF fault = "none" THEN failed ELSE failed \cup {<<"csv", cur>>}
          /\ csv_calls' = IF fault = "none" THEN Append(csv_calls, DataRow(pending))
                          ELSE csv_calls
    /\ pc' = "iter"
    /\ pending' = NoMsg
    /\ UNCHANGED <<src_exists, src, last_position, cur, new_data_found, store,
                   db_ready, init_res, pass_exit, last_line, ins_res, quiet,
                   csv_at_start, init_calls, exit_log>>

\* The sleep taken after every pass.
AfterPass_AlwaysSleep(found) == "sleep"

\* Lines 273-275: the loop sleeps only when the pass set no new_data_found.
AfterPass(found) == IF found THEN "open" ELSE "sleep"

\* Lines 271-275: the for loop is exhausted; file.tell() becomes the stored
\* offset, and the loop sleeps unless the pass saw a non-empty line.
EndPass ==
    /\ pc = "iter"
    /\ ~HasLineAt(src, cur)
    /\ last_position' = cur
    /\ pass_exit' = "complete"
    /\ pc' = AfterPass(new_data_found)
    /\ cur' = 0
    /\ new_data_found' = FALSE
    /\ UNCHANGED <<src_exists, src, pending, store, csv, db_ready, init_res,
                   last_line, ins_res, csv_res, quiet, failed, csv_calls,
                   csv_at_start, init_calls, exit_log>>

\* time.sleep(interval_secs) returns (lines 275, 279, 282): the next pass.
Sleep ==
    /\ pc = "sleep"
    /\ pc' = "open"
    /\ UNCHANGED <<src_exists, src, last_position, cur, new_data_found,
                   pending, store, csv, db_ready, init_res, pass_exit,
                   last_line, ins_res, csv_res, quiet, failed, csv_calls,
                   csv_at_start, init_calls, exit_log>>

\* What main logs when KeyboardInterrupt comes out of line 318: main has no
\* try around the call and no finally, so nothing; the interpreter prints
\* the traceback and the process ends.
OnInterrupt == <<>>

\* KeyboardInterrupt: it is no Exception, so neither handler of the loop
\* catches it, and main has none.
Interrupt ==
    /\ pc \in LoopPcs
    /\ pc' = "interrupted"
    /\ exit_log' = exit_log \o OnInterrupt
    /\ UNCHANGED <<src_exists, src, last_position, cur, new_data_found,
                   pending, store, csv, db_ready, init_res, pass_exit,
                   last_line, ins_res, csv_res, quiet, failed, csv_calls,
                   csv_at_start, init_calls>>

\* ------------------------------------------------------------ the producer
\* Another process appends a whole line to the live data file, creating it
\* when it is not there.  The loop looks at the file only when it opens it
\* and when it reads the next line, so an append at any other moment is the
\* same as one just before those.
Produce ==
    /\ pc \in {"open", "iter"}
    /\ Len(src) < MaxLines
    /\ \E id \in LineIds : src' = Append(src, id)
    /\ src_exists' = TRUE
    /\ quiet' = 0
    /\ UNCHANGED <<pc, last_position, cur, new_data_found, pending, store, csv,
                   db_ready, init_res, pass_exit, last_line, ins_res, csv_res,
                   failed, csv_calls, csv_at_start, init_calls, exit_log>>

Next ==
    \/ MainConfig
    \/ MainUnlink
    \/ MainInitDb
    \/ LoopInitDb
    \/ OpenFile
    \/ ReadLine
    \/ DoInsert
    \/ DoCsv
    \/ EndPass
    \/ Sleep
    \/ Interrupt
    \/ Produce

Spec == Init /\ [][Next]_vars

\* ------------------------------------------------- the functions, by call
\* init_db and insert_message called in any order on a path where no store
\* is: what each call leaves for the next.
InitStore ==
    /\ InitCommon
    /\ pc = "store"
    /\ store = NoStore
    /\ csv = NoCsv
    /\ csv_at_start = FALSE

CallInitDb ==
    /\ pc = "store"
    /\ \E fault \in InitFaults :
          /\ store' = init_db(store, fault)
          /\ db_ready' = (db_ready \/ fault = "none")
          /\ init_res' = IF fault = "none" THEN "ok" ELSE "fail"
    /\ UNCHANGED <<pc, src_exists, src, last_position, cur, new_data_found,
                   pending, csv, pass_exit, last_line, ins_res, csv_res, quiet,
                   failed, csv_calls, csv_at_start, init_calls, exit_log>>

CallInsertMessage ==
    /\ pc = "store"
    /\ \E m \in Msgs, fault \in InsertFaults :
          /\ Len(store.msgs) >= MaxRows => fault # "none"
          /\ pending' = m
          /\ store' = insert_message(store, m, fault)
          /\ ins_res' = InsertResult(store, fault)
          /\ failed' = IF InsertResult(store, fault) = "ok" THEN failed
                       ELSE failed \cup {<<"db", cur>>}
    /\ init_res' = "-"
    /\ UNCHANGED <<pc, src_exists, src, last_position, cur, new_data_found,
                   csv, db_ready, pass_exit, last_line, csv_res, quiet,
                   csv_calls, csv_at_start, init_calls, exit_log>>

NextStore ==
    \/ CallInitDb
    \/ CallInsertMessage

SpecStore == InitStore /\ [][NextStore]_vars

\* append_to_csv called again and again on a path where a CSV file may be.
InitCsv ==
    /\ InitCommon
    /\ pc = "csv_file"
    /\ store = NoStore
    /\ csv \in {NoCsv, OldCsv}
    /\ csv_at_start = csv.exists

CallAppendToCsv ==
    /\ pc = "csv_file"
    /\ \E m \in Msgs, fault \in CsvFaults :
          /\ Len(csv_calls) >= MaxRows => fault # "none"
          /\ pending' = m
          /\ csv' = append_to_csv(csv, m, fault)
          /\ csv_res' = IF fault = "none" THEN "ok" ELSE "fail"
          /\ failed' = IF fault = "none" THEN failed ELSE failed \cup {<<"csv", cur>>}
          /\ csv_calls' = IF fault = "none" THEN Append(csv_calls, DataRow(m))
                          ELSE csv_calls
    /\ UNCHANGED <<pc, src_exists, src, last_position, cur, new_data_found,
                   store, db_ready, init_res, pass_exit, last_line, ins_res,
                   quiet, csv_at_start, init_calls, exit_log>>

NextCsv == CallAppendToCsv

SpecCsv == InitCsv /\ [][NextCsv]_vars

\* ============================================================= properties
\* The step that reads the line at cur (ReadLine), told from an append and
\* from an interruption.
ReadsLine == pc = "iter" /\ HasLineAt(src, cur) /\ src' = src /\ pc' # "interrupted"

\* A value float() cannot coerce: None, or a string that is no number.
Uncoercible(v) == v.k = "null" \/ (v.k = "str" /\ FloatOfStr(v.s) = Raised)

DbFailed == {f \in failed : f[1] = "db"}
CsvFailed == {f \in failed : f[1] = "csv"}

\* C1: a non-empty line that json.loads cannot decode is skipped: the same
\* pass goes on with the next line (the reader stands behind the bad line,
\* the pass has not ended) and nothing is written for it.
C1_BadLineSkipped ==
    [][(ReadsLine /\ NonEmpty(LineAt(src, cur)) /\ ~JsonLoads(LineAt(src, cur)).ok)
         => /\ pc' = "iter"
            /\ cur' = cur + LineBytes(LineAt(src, cur))
            /\ pass_exit' = pass_exit
            /\ store' = store /\ csv' = csv]_vars

\* The sentiment a committed insert was given: only NaN is stored as NULL.
RECURSIVE AnyNaN(_)
AnyNaN(rows) == rows # <<>> /\ (Head(rows).sentiment.k = "null" \/ AnyNaN(Tail(rows)))

RECURSIVE AnyInf(_)
AnyInf(rows) == rows # <<>> /\ (Head(rows).sentiment.s = "inf" \/ AnyInf(Tail(rows)))

\* agg.average_sentiment is the mean of the sentiments rows were inserted
\* with: 0.0 as seeded while there is none, not a number (which SQLite shows
\* as NULL) when one of them is NaN, else their sum over their number.
IsMeanOf(agg, rows) ==
    CASE rows = <<>> -> agg.k = "fin" /\ agg.num = 0
      [] AnyNaN(rows) -> agg.k = "null"
      [] AnyInf(rows) -> agg.k = "inf"
      [] OTHER -> agg.k = "fin" /\ agg.num * Len(rows) = agg.den * SumFin(rows)

\* C2: once init_db has returned without an error, whatever insert_message
\* calls committed or failed since, there is one aggregate row, its
\* total_messages is the number of rows of streamed_messages and its
\* average_sentiment the mean of their sentiments.
C2_AggregateIsMean ==
    db_ready =>
        /\ Len(store.ins) = 1
        /\ store.ins[1].total = Len(store.msgs)
        /\ IsMeanOf(store.ins[1], store.msgs)

\* C3: when init_db returns without an error, whatever the store held
\* before, the record table is empty and the aggregate table holds exactly
\* the row (0.0, 0).
C3_InitDbResets ==
    init_res = "ok" =>
        /\ store.msgs_t /\ store.msgs = <<>>
        /\ store.ins_t /\ store.ins = <<SeedRow>>

\* The tables of the store, without the file they are in.
Tables(st) == [msgs_t |-> st.msgs_t, msgs |-> st.msgs, ins_t |-> st.ins_t, ins |-> st.ins]

\* C4 (a step that leaves init_res at "-" is an insert_message call):
\* an insert_message call either commits both of its writes (the new
\* row, and the aggregate row set to the count and mean of the table with
\* it), or, when it raised at any step, leaves the tables as they were.
C4_InsertAtomic ==
    [][init_res' = "-"
         => \/ /\ ins_res' = "ok"
               /\ store'.msgs = Append(store.msgs, RowOf(pending'))
               /\ store'.ins = UpdateLatest(store.ins, SelectCountAvg(store'.msgs))
               /\ store'.ins # <<>> => store'.ins[Len(store'.ins)].total = Len(store'.msgs)
            \/ /\ ins_res' \in {"early", "late"}
               /\ Tables(store') = Tables(store)]_vars

\* A call raised after its INSERT had run, on an initialized store, and
\* neither the row nor a changed aggregate is there.
C4_Witness ==
    /\ pc = "store"
    /\ ins_res = "late"
    /\ store.msgs_t /\ store.msgs = <<>>
    /\ store.ins = <<SeedRow>>

\* C5: a decoded record whose sentiment cannot be coerced to a float is
\* dropped: no insert_message and no append_to_csv call follows (the loop
\* stays at the for statement), the store and the CSV file are as before,
\* and the pass goes on behind the line.
C5_DroppedNoSinks ==
    [][(ReadsLine /\ JsonLoads(LineAt(src, cur)).ok
          /\ Uncoercible(JsonLoads(LineAt(src, cur)).obj.sentiment))
         => /\ pc' = "iter"
            /\ last_line' = "dropped"
            /\ pending' = NoMsg
            /\ store' = store /\ csv' = csv /\ csv_calls' = csv_calls
            /\ cur' = cur + LineBytes(LineAt(src, cur))
            /\ pass_exit' = pass_exit]_vars

\* A record was dropped after another had gone to both sinks, and the pass
\* is still reading.
C5_Witness ==
    /\ pc = "iter"
    /\ last_line = "dropped"
    /\ Len(store.msgs) = 1
    /\ Len(csv.rows) = 2

\* C6: the stored offset never decreases, in any step of any pass.
C6_OffsetMonotone == [][last_position' >= last_position]_vars

\* A pass was given up on an error after an earlier pass had advanced the
\* offset.
C6_Witness ==
    /\ pass_exit = "error"
    /\ last_position > 0
    /\ pc = "sleep"

\* C7: in a pass that begins when nothing has been appended since the pass
\* before it opened the file, the offset stays, and nothing is written to
\* the store or the CSV file, and neither sink is called.
C7_QuietPassIdle ==
    [][(quiet = 2 /\ pc \in {"iter", "insert", "csv"})
         => /\ last_position' = last_position
            /\ store' = store /\ csv' = csv
            /\ pc' \notin {"insert", "csv"}]_vars

\* C8: a failed sink write is local: after insert_message, failed or not,
\* append_to_csv is called; append_to_csv, failed or not, leaves the store
\* as it is and the loop at the for statement; and no sink is called for a
\* line whose write to that sink failed before.
C8_SinkFailureLocal ==
    [][/\ (pc = "insert" /\ pc' # "interrupted") => pc' = "csv"
       /\ (pc = "csv" /\ pc' # "interrupted") => (pc' = "iter" /\ store' = store)
       /\ (pc = "insert" /\ pc' = "csv") => <<"db", cur>> \notin failed
       /\ (pc = "csv" /\ pc' = "iter") => <<"csv", cur>> \notin failed]_vars

\* C9: on a path where no file was, while no append_to_csv call has failed,
\* the file is the header followed by the data rows of the calls in call
\* order.
C9_HeaderOnce ==
    (~csv_at_start /\ CsvFailed = {} /\ csv_calls # <<>>)
        => csv.exists /\ csv.rows = <<Header>> \o csv_calls

\* Two calls with different records on a fresh path.
C9_Witness ==
    /\ pc = "csv_file"
    /\ ~csv_at_start
    /\ CsvFailed = {}
    /\ Len(csv.rows) = 3
    /\ csv.rows[2] # csv.rows[3]

\* A step of the loop itself (not the producer, not an interruption).
LoopStep == OpenFile \/ ReadLine \/ DoInsert \/ DoCsv \/ EndPass \/ Sleep

C11_InterruptLogged ==
    pc = "interrupted" => exit_log = <<"warning", "shutdown">>

\* C12: a pass that finds no source file reads nothing, writes to no sink,
\* leaves the offset and the missing file as they are and sleeps; the sleep
\* is followed by another try, and when the file is there the pass starts
\* reading at the stored offset.
C12_NotFoundRetries ==
    [][ /\ (pc = "open" /\ ~src_exists /\ src' = src /\ pc' # "interrupted")
            => /\ pc' = "sleep"
               /\ pass_exit' = "notfound"
               /\ ~src_exists'
               /\ last_position' = last_position
               /\ store' = store /\ csv' = csv /\ csv_calls' = csv_calls
               /\ pending' = pending
        /\ (pc = "sleep" /\ pass_exit = "notfound" /\ pc' # "interrupted")
            => /\ pc' = "open"
               /\ last_position' = last_position
               /\ store' = store /\ csv' = csv
        /\ (pc = "open" /\ pass_exit = "notfound" /\ pc' = "iter")
            => /\ src_exists
               /\ cur' = last_position ]_vars

\* The file was not there, the loop slept, and the file is there at the next
\* try.
C12_Witness ==
    /\ pc = "open"
    /\ pass_exit = "notfound"
    /\ src_exists
    /\ src # <<>>

\* A finite float.
Finite(v) == v.k = "float" /\ v.s = "fin"

\* C13: the record process_message hands to the sinks has a finite float
\* sentiment, and so has every row of the record table and of the CSV file.
C13_FiniteSentiment ==
    /\ pending # NoMsg => Finite(pending.sentiment)
    /\ \A i \in DOMAIN store.msgs : Finite(store.msgs[i].sentiment)
    /\ \A i \in DOMAIN csv_calls : csv_calls[i][5] \notin {"nan", "inf", "-inf"}

RECURSIVE NormalizedBefore(_, _, _)
\* The lines among the first i of the file that end at or before pos, are not
\* empty, decode, and are not dropped by process_message.
NormalizedBefore(lines, i, pos) ==
    IF i = 0 THEN 0
    ELSE NormalizedBefore(lines, i - 1, pos)
         + (IF /\ Offset(lines, i) <= pos
               /\ NonEmpty(lines[i])
               /\ JsonLoads(lines[i]).ok
               /\ process_message(JsonLoads(lines[i]).obj) # NoMsg
            THEN 1 ELSE 0)

\* The rows of the CSV file after its header.
CsvDataRows == IF csv.rows = <<>> THEN <<>> ELSE Tail(csv.rows)

\* C14: between passes, in a run without a failed sink write whose CSV file
\* was not there at the start, the record table and the CSV file each hold as
\* many rows as there are normalized lines before the stored offset.
C14_OncePerSink ==
    (pc \in {"open", "sleep"} /\ failed = {} /\ ~csv_at_start)
        => /\ Len(store.msgs) = NormalizedBefore(src, Len(src), last_position)
           /\ Len(CsvDataRows) = NormalizedBefore(src, Len(src), last_position)

\* C15: only the end of a complete pass assigns the offset, and it assigns
\* the position after the last line of the file; a pass that an error ended,
\* or that found no file, leaves the offset as it was.
C15_OffsetAtPassEnd ==
    [][ /\ (last_position' # last_position)
            => (pc = "iter" /\ ~HasLineAt(src, cur) /\ pass_exit' = "complete")
        /\ (pc = "iter" /\ pc' \in {"open", "sleep"} /\ pass_exit' = "complete")
            => (last_position' = cur /\ cur = Size(src))
        /\ (pc \in {"open", "iter"} /\ pc' \in {"open", "sleep"}
              /\ pass_exit' \in {"error", "notfound"})
            => last_position' = last_position ]_vars

\* A complete pass has moved the offset, and a later pass that a line ended
\* has left it there, short of the end of the file.
C15_Witness ==
    /\ pc = "open"
    /\ pass_exit = "error"
    /\ last_line = "decode_error"
    /\ last_position > 0
    /\ last_position < Size(src)

\* C16: a record process_message returns goes to insert_message first, then,
\* whatever insert_message did, to append_to_csv, and only then does the loop
\* read on; append_to_csv, failing or not, leaves the store as it is.
C16_InsertThenCsv ==
    [][ /\ (ReadsLine /\ JsonLoads(LineAt(src, cur)).ok
              /\ process_message(JsonLoads(LineAt(src, cur)).obj) # NoMsg)
            => /\ pc' = "insert"
               /\ pending' = process_message(JsonLoads(LineAt(src, cur)).obj)
               /\ store' = store /\ csv' = csv /\ csv_calls' = csv_calls
        /\ (pc = "insert" /\ pc' # "interrupted")
            => /\ pc' = "csv"
               /\ src' = src => (pending' = pending /\ cur' = cur /\ csv' = csv)
        /\ (pc = "csv" /\ pc' # "interrupted")
            => /\ pc' = "iter"
               /\ store' = store
               /\ cur' = cur
        /\ (pc' = "csv") => pc = "insert"
        /\ (pc' = "insert") => pc = "iter" ]_vars

\* insert_message committed the record's row, append_to_csv then failed, and
\* the row is still there when the loop reads on.
C16_Witness ==
    /\ pc = "iter"
    /\ ins_res = "ok"
    /\ csv_res = "fail"
    /\ store.msgs # <<>>
    /\ store.msgs[Len(store.msgs)] = RowOf(process_message(JsonLoads("Hi").obj))
    /\ last_line = "emitted"

\* A non-empty line lies between the offsets from and to.
SawNonEmpty(lines, from, to) ==
    \E i \in DOMAIN lines :
        Offset(lines, i - 1) >= from /\ Offset(lines, i) <= to /\ NonEmpty(lines[i])

\* C17: a complete pass is followed by the sleep when none of the lines it
\* read was non-empty, and by the next pass at once when one was, dropped by
\* process_message or not.
C17_IdlePolicy ==
    [][ (pc = "iter" /\ pc' \in {"open", "sleep"} /\ pass_exit' = "complete")
          => pc' = IF SawNonEmpty(src, last_position, cur) THEN "open" ELSE "sleep" ]_vars

\* One pass has opened the file since the last append; it read to the end of
\* the file, its last line was dropped by process_message, and the next pass
\* is about to open the file.
C17_Witness ==
    /\ pc = "open"
    /\ quiet = 1
    /\ pass_exit = "complete"
    /\ last_line = "dropped"
    /\ last_position = Size(src)

\* The rows of a are the first rows of b.
IsPrefix(a, b) == Len(a) <= Len(b) /\ SubSeq(b, 1, Len(a)) = a

\* C18: the run calls init_db once, before the loop starts, and from then on
\* init_db is not called again and no row of streamed_messages goes away.
C18_InitDbOnce ==
    [][ /\ (pc \notin LoopPcs /\ pc' \in LoopPcs) => init_calls' = 1
        /\ (pc \in LoopPcs)
            => /\ init_calls' = init_calls
               /\ IsPrefix(store.msgs, store'.msgs) ]_vars

\* The loop under fair scheduling: the process always takes its next step,
\* and an open of a file that is there does not fail for ever.  The producer
\* may stop at any time.
FairSpec ==
    /\ Spec
    /\ WF_vars(LoopStep)
    /\ SF_vars(OpenFile /\ pc' = "iter")

\* Line i of the file is one process_message returns a record for.
Normalizable(i) ==
    /\ i \in DOMAIN src
    /\ NonEmpty(src[i])
    /\ JsonLoads(src[i]).ok
    /\ process_message(JsonLoads(src[i]).obj) # NoMsg

\* The record of line i has a row in streamed_messages.
Inserted(i) ==
    /\ i \in DOMAIN src
    /\ \E k \in DOMAIN store.msgs :
          store.msgs[k] = RowOf(process_message(JsonLoads(src[i]).obj))

\* C19: in a run with no failed sink write and no interruption, every line the
\* producer has appended that process_message accepts gets a row in
\* streamed_messages in the end, whatever lines come before it.
C19_Progress ==
    \A i \in 1..MaxLines :
        [](failed = {} /\ pc # "interrupted")
            => [](Normalizable(i) => <>Inserted(i))

\* A row of streamed_messages as the CSV row of the same values: a NULL read
\* back from the table is None.
RowAsCsv(r) == DataRow([r EXCEPT !.sentiment = IF @ = SqlNull THEN PyNone ELSE @])

\* C20: in a run with no failed sink write whose CSV file was not there at
\* the start, whenever the loop is between two lines the data rows of the CSV
\* file are the rows of streamed_messages, in the same order.
C20_SinksAgree ==
    (pc \in {"iter", "open", "sleep"} /\ failed = {} /\ ~csv_at_start)
        => CsvDataRows = [i \in DOMAIN store.msgs |-> RowAsCsv(store.msgs[i])]
====
